---- MODULE Spec2Model ----
(***************************************************************************)
(* A model of nbodysim: the cube-sphere mesh generator, the sphere         *)
(* aggregator and its draw calls (sphere.rs), the instance grid (main.rs / *)
(* render.rs), the orbit camera with its controller and uniform            *)
(* (camera.rs), and the event loop (main.rs): window events, resize, the   *)
(* frame, and the errors of acquiring the surface texture.                 *)
(*                                                                         *)
(* f32 values are modelled as fixed-point integers with Scale units per    *)
(* 1.0, every multiplication and division rounding to the nearest unit;    *)
(* the quotient x / (resolution - 1) of the mesh generator is rounded to a *)
(* step that grows with its magnitude, as an f32 quotient is. Statements   *)
(* about magnitudes are therefore stated up to a rounding tolerance, as    *)
(* they are for f32.                                                       *)
(***************************************************************************)
EXTENDS Integers, Sequences, FiniteSets, TLC

VARIABLES
    resolution,             \* the resolution handed to Sphere::new
    meshes,                 \* Sphere::new's `meshes` vector
    sphere_built,           \* Sphere::new has returned
    num_instances_per_row,  \* NUM_INSTANCES_PER_ROW
    space_between,          \* SPACE_BETWEEN (fixed-point)
    instances,              \* the instance vector being collected
    instances_built,        \* the flat_map has been collected
    camera,                 \* Camera
    controller,             \* CameraController
    event,                  \* the event last handed to the event loop's closure
    consumed,               \* what State::input returned for it
    frames,                 \* number of update_camera calls so far
    camera_uniform,         \* CameraUniform, the CPU copy of the view-projection
    camera_buffer,          \* contents of the camera buffer camera_bind_group binds
    render_pass,            \* commands recorded in the render pass, in order
    submitted,              \* the last queue.submit: the commands, and the
                            \* camera buffer they read
    control_flow,           \* *control_flow of the event loop
    size,                   \* State.size, a PhysicalSize<u32>
    config,                 \* State.config: the surface configuration
    depth_texture,          \* State.depth_texture
    rendered,               \* what state.render() returned in the last frame
    calls                   \* the surface, device and queue calls the last
                            \* handler made, in order

vars == <<resolution, meshes, sphere_built, num_instances_per_row, space_between,
          instances, instances_built, camera, controller, event, consumed, frames,
          camera_uniform, camera_buffer, render_pass, submitted,
          control_flow, size, config, depth_texture, rendered, calls>>

buildVars == <<resolution, meshes, sphere_built, num_instances_per_row,
               space_between, instances, instances_built>>
cameraVars == <<camera, controller, event, consumed, frames>>
renderVars == <<camera_uniform, camera_buffer, render_pass, submitted>>
windowVars == <<control_flow, size, config, depth_texture, rendered, calls>>

(***************************************************************************)
(* Bounds of the model.                                                    *)
(***************************************************************************)
MaxResolution == 4
MaxPerRow == 2
MaxFrames == 3
\* Rounding tolerance for magnitudes and coordinates, in units of 1/Scale
Tolerance == 2

(***************************************************************************)
(* Fixed-point arithmetic standing for f32.                                *)
(***************************************************************************)
Scale == 1000

Abs(a) == IF a < 0 THEN -a ELSE a

\* a / b rounded to the nearest integer (b > 0), symmetric about zero.
RoundDiv(a, b) ==
    IF a >= 0 THEN (2 * a + b) \div (2 * b)
    ELSE -((2 * (-a) + b) \div (2 * b))

\* The product of two fixed-point numbers.
Mul(a, b) == RoundDiv(a * b, Scale)

RECURSIVE FloorSqrtIn(_, _, _)
FloorSqrtIn(n, lo, hi) ==
    IF lo >= hi THEN lo
    ELSE LET mid == (lo + hi + 1) \div 2
         IN IF mid * mid <= n THEN FloorSqrtIn(n, mid, hi)
            ELSE FloorSqrtIn(n, lo, mid - 1)

\* sqrt(n) rounded to the nearest integer, for 0 <= n < 2^31.
RoundSqrt(n) ==
    LET r == FloorSqrtIn(n, 0, 46340)
    IN IF n - r * r > r THEN r + 1 ELSE r

(***************************************************************************)
(* cgmath vectors: triples.                                                *)
(***************************************************************************)
Vec(x, y, z) == <<x, y, z>>
ZeroVec == <<0, 0, 0>>
VAdd(a, b) == <<a[1] + b[1], a[2] + b[2], a[3] + b[3]>>
VSub(a, b) == <<a[1] - b[1], a[2] - b[2], a[3] - b[3]>>
\* a vector times an exact integer
VTimes(a, k) == <<a[1] * k, a[2] * k, a[3] * k>>
\* a fixed-point vector times a fixed-point scalar
VScale(a, s) == <<Mul(a[1], s), Mul(a[2], s), Mul(a[3], s)>>
Dot(a, b) == a[1] * b[1] + a[2] * b[2] + a[3] * b[3]
\* Vector3::cross; the product of the components is left unscaled
CrossRaw(a, b) ==
    <<a[2] * b[3] - a[3] * b[2],
      a[3] * b[1] - a[1] * b[3],
      a[1] * b[2] - a[2] * b[1]>>
\* cross product of two fixed-point vectors
Cross(a, b) ==
    LET c == CrossRaw(a, b)
    IN <<RoundDiv(c[1], Scale), RoundDiv(c[2], Scale), RoundDiv(c[3], Scale)>>
\* InnerSpace::magnitude of a fixed-point vector
Magnitude(a) == RoundSqrt(Dot(a, a))
\* InnerSpace::normalize of a fixed-point vector of non-zero magnitude
Normalize(a) ==
    LET m == Magnitude(a)
    IN <<RoundDiv(a[1] * Scale, m), RoundDiv(a[2] * Scale, m),
         RoundDiv(a[3] * Scale, m)>>

(***************************************************************************)
(* sphere.rs: Mesh::new.                                                   *)
(***************************************************************************)
\* SphereMeshVertex's fixed colour, [0.5, 0.5, 0.5]
VertexColor == <<Scale \div 2, Scale \div 2, Scale \div 2>>

\* axis_a: the components of local_up permuted
AxisA(local_up) == Vec(local_up[2], local_up[3], local_up[1])
\* AxisB with the factors exchanged: axis_a x local_up
AxisBReversed(local_up) == Cross(AxisA(local_up), local_up)

\* axis_b = local_up x axis_a
AxisB(local_up) == Cross(local_up, AxisA(local_up))

\* Percent with the divisor resolution, not resolution - 1
PercentOfResolution(x, R) ==
    LET step == IF 2 * x < R THEN 1 ELSE 2
    IN RoundDiv(x * Scale, R * step) * step

\* (x as f32) / ((resolution - 1) as f32), for resolution - 1 > 0. An f32
\* keeps a fixed number of significant bits, so the quotient is rounded to a
\* step that doubles at 0.5: here 1/Scale below 0.5 and 2/Scale from 0.5 on.
\* What point_on_unit_cube does next (- 0.5, * 2, the product with an axis of
\* components 0 and +-1, the sum with local_up) is exact on such values.
Percent(x, R) ==
    LET step == IF 2 * x < R - 1 THEN 1 ELSE 2
    IN RoundDiv(x * Scale, (R - 1) * step) * step

\* PointOnUnitCube starting from -local_up, the opposite face
PointOnOppositeFace(R, local_up, x, y) ==
    VAdd(VAdd(VTimes(local_up, -1),
              VScale(AxisA(local_up), (Percent(x, R) - Scale \div 2) * 2)),
         VScale(AxisB(local_up), (Percent(y, R) - Scale \div 2) * 2))

\* point_on_unit_cube
PointOnUnitCube(R, local_up, x, y) ==
    VAdd(VAdd(local_up,
              VScale(AxisA(local_up), (Percent(x, R) - Scale \div 2) * 2)),
         VScale(AxisB(local_up), (Percent(y, R) - Scale \div 2) * 2))

\* MeshVertex with the point left on the cube, not normalised
MeshVertexOnCube(R, local_up, x, y) ==
    IF R - 1 = 0
    THEN [position |-> ZeroVec, nan |-> TRUE, color |-> VertexColor,
          at |-> <<x, y>>, cube |-> ZeroVec]
    ELSE [position |-> PointOnUnitCube(R, local_up, x, y),
          nan |-> FALSE, color |-> VertexColor,
          at |-> <<x, y>>, cube |-> PointOnUnitCube(R, local_up, x, y)]

\* The vertex pushed for grid coordinate (x, y). With resolution = 1 the
\* divisor (resolution - 1) as f32 is 0.0 and percent is 0.0 / 0.0 = NaN, which
\* every later operation keeps: the position is NaN. `at` and `cube` are
\* the loop's x, y and point_on_unit_cube, kept beside the vertex.
MeshVertex(R, local_up, x, y) ==
    IF R - 1 = 0
    THEN [position |-> ZeroVec, nan |-> TRUE, color |-> VertexColor,
          at |-> <<x, y>>, cube |-> ZeroVec]
    ELSE [position |-> Normalize(PointOnUnitCube(R, local_up, x, y)),
          nan |-> FALSE, color |-> VertexColor,
          at |-> <<x, y>>, cube |-> PointOnUnitCube(R, local_up, x, y)]

\* EmitsTriangles without the test of y
EmitsTrianglesRowOnly(R, x, y) == x # R - 1

\* if x != resolution - 1 && y != resolution - 1
EmitsTriangles(R, x, y) == x # R - 1 /\ y # R - 1

\* CellIndices with i = y + x * resolution, the position of the vertex pushed
\* in the same pass
CellIndicesOfPush(R, x, y) ==
    LET i == y + x * R
    IN <<i, i + R + 1, i + R, i, i + 1, i + R + 1>>

\* CellIndices with the second triangle wound the other way
CellIndicesMixedWinding(R, x, y) ==
    LET i == x + y * R
    IN <<i, i + R + 1, i + R, i, i + R + 1, i + 1>>

\* The six indices pushed for i = x + y * resolution
CellIndices(R, x, y) ==
    LET i == x + y * R
    IN <<i, i + R + 1, i + R, i, i + 1, i + R + 1>>

\* One pass of the inner loop's body
MeshLoopBody(R, local_up, x, y, acc) ==
    [vertices |-> Append(acc.vertices, MeshVertex(R, local_up, x, y)),
     triangles |-> IF EmitsTriangles(R, x, y)
                   THEN acc.triangles \o CellIndices(R, x, y)
                   ELSE acc.triangles]

\* for x in 0..resolution { for y in 0..resolution { ... } }
RECURSIVE MeshLoop(_, _, _, _, _)
MeshLoop(R, local_up, x, y, acc) ==
    IF x >= R THEN acc
    ELSE IF y >= R THEN MeshLoop(R, local_up, x + 1, 0, acc)
    ELSE MeshLoop(R, local_up, x, y + 1, MeshLoopBody(R, local_up, x, y, acc))

\* Mesh::new(resolution, local_up, device)
MeshNew(R, local_up) ==
    LET acc == MeshLoop(R, local_up, 0, 0, [vertices |-> <<>>, triangles |-> <<>>])
    IN [resolution |-> R,
        local_up |-> local_up,
        axis_a |-> AxisA(local_up),
        axis_b |-> AxisB(local_up),
        vertex_buffer |-> acc.vertices,
        index_buffer |-> acc.triangles,
        num_elements |-> Len(acc.triangles)]

(***************************************************************************)
(* sphere.rs: DIRECTIONS and Sphere::new.                                  *)
(***************************************************************************)
\* DIRECTIONS with left and right exchanged
DirectionsSwapped ==
    <<Vec(0, Scale, 0), Vec(0, -Scale, 0), Vec(Scale, 0, 0),
      Vec(-Scale, 0, 0), Vec(0, 0, Scale), Vec(0, 0, -Scale)>>

DIRECTIONS ==
    <<Vec(0, Scale, 0),      \* up
      Vec(0, -Scale, 0),     \* down
      Vec(-Scale, 0, 0),     \* left
      Vec(Scale, 0, 0),      \* right
      Vec(0, 0, Scale),      \* forward
      Vec(0, 0, -Scale)>>    \* back

\* One pass of `for dir in DIRECTIONS { meshes.push(Mesh::new(..)) }`
SphereLoop ==
    /\ instances_built
    /\ ~sphere_built
    /\ Len(meshes) < Len(DIRECTIONS)
    /\ meshes' = Append(meshes, MeshNew(resolution, DIRECTIONS[Len(meshes) + 1]))
    /\ UNCHANGED <<resolution, sphere_built, num_instances_per_row, space_between,
                   instances, instances_built>>
    /\ UNCHANGED cameraVars
    /\ UNCHANGED windowVars
    /\ UNCHANGED renderVars

\* Self { meshes }
SphereReturn ==
    /\ instances_built
    /\ ~sphere_built
    /\ Len(meshes) = Len(DIRECTIONS)
    /\ sphere_built' = TRUE
    /\ UNCHANGED <<resolution, meshes, num_instances_per_row, space_between,
                   instances, instances_built>>
    /\ UNCHANGED cameraVars
    /\ UNCHANGED windowVars
    /\ UNCHANGED renderVars

\* Sphere::new(resolution, device) as a whole: the meshes of the six passes
RECURSIVE SphereNewFrom(_, _)
SphereNewFrom(R, built) ==
    IF Len(built) = Len(DIRECTIONS) THEN built
    ELSE SphereNewFrom(R, Append(built, MeshNew(R, DIRECTIONS[Len(built) + 1])))
SphereNew(R) == SphereNewFrom(R, <<>>)

(***************************************************************************)
(* sphere.rs: DrawSphere for wgpu::RenderPass. A render pass is the        *)
(* sequence of the commands recorded in it; a command names its operation, *)
(* and has the slot or index, the buffer, the handle (bind group or        *)
(* pipeline) and the ranges the operation takes, empty where it takes none.*)
(***************************************************************************)
NoRange == <<0, 0>>
Command(op, slot, buffer, handle, indices, range) ==
    [op |-> op, slot |-> slot, buffer |-> buffer, handle |-> handle,
     indices |-> indices, base_vertex |-> 0, instances |-> range]
SetVertexBuffer(slot, buffer) ==
    Command("set_vertex_buffer", slot, buffer, "", NoRange, NoRange)
SetIndexBuffer(buffer) ==
    Command("set_index_buffer", 0, buffer, "Uint32", NoRange, NoRange)
SetBindGroup(index, group) ==
    Command("set_bind_group", index, <<>>, group, NoRange, NoRange)
SetPipeline(pipeline) ==
    Command("set_pipeline", 0, <<>>, pipeline, NoRange, NoRange)
DrawIndexed(indices, range) ==
    Command("draw_indexed", 0, <<>>, "", indices, range)

\* The commands of DrawMeshInstanced with the two bind groups at each
\* other's index
MeshCommandsGroupsSwapped(mesh, range, camera_bind_group, light_bind_group) ==
    <<SetVertexBuffer(0, mesh.vertex_buffer),
      SetIndexBuffer(mesh.index_buffer),
      SetBindGroup(0, light_bind_group),
      SetBindGroup(1, camera_bind_group),
      DrawIndexed(<<0, mesh.num_elements>>, range)>>

\* The commands draw_mesh_instanced records
MeshCommands(mesh, range, camera_bind_group, light_bind_group) ==
    <<SetVertexBuffer(0, mesh.vertex_buffer),
      SetIndexBuffer(mesh.index_buffer),
      SetBindGroup(0, camera_bind_group),
      SetBindGroup(1, light_bind_group),
      DrawIndexed(<<0, mesh.num_elements>>, range)>>

\* draw_mesh_instanced: the pass afterwards
DrawMeshInstanced(pass, mesh, range, camera_bind_group, light_bind_group) ==
    pass \o MeshCommands(mesh, range, camera_bind_group, light_bind_group)

\* draw_sphere_instanced: `for mesh in &sphere.meshes { draw_mesh_instanced }`
\* from the k-th mesh on
RECURSIVE DrawSphereLoop(_, _, _, _, _, _)
DrawSphereLoop(pass, sphere, k, range, camera_bind_group, light_bind_group) ==
    IF k > Len(sphere) THEN pass
    ELSE DrawSphereLoop(
             DrawMeshInstanced(pass, sphere[k], range,
                               camera_bind_group, light_bind_group),
             sphere, k + 1, range, camera_bind_group, light_bind_group)

\* draw_sphere_instanced
DrawSphereInstanced(pass, sphere, range, camera_bind_group, light_bind_group) ==
    DrawSphereLoop(pass, sphere, 1, range, camera_bind_group, light_bind_group)

\* draw_sphere
DrawSphere(pass, sphere, camera_bind_group, light_bind_group) ==
    DrawSphereInstanced(pass, sphere, <<0, 1>>, camera_bind_group, light_bind_group)

(***************************************************************************)
(* main.rs / render.rs: the instance grid.                                 *)
(***************************************************************************)
\* sin and cos of half the angle, for the two angles the program uses
SinHalf(deg) == CASE deg = 0 -> 0 [] deg = 45 -> 383
CosHalf(deg) == CASE deg = 0 -> Scale [] deg = 45 -> 924

\* Quaternion::from_axis_angle(axis, Deg(deg)) = from_sv(cos, axis * sin)
FromAxisAngle(axis, deg) ==
    [s |-> CosHalf(deg), v |-> VScale(axis, SinHalf(deg))]

\* GridCoord centred on the middle of the row, (n - 1) / 2.0
GridCoordCentred(space, i, n) == Mul(space, i * Scale - RoundDiv((n - 1) * Scale, 2))

\* SPACE_BETWEEN * (i as f32 - NUM_INSTANCES_PER_ROW as f32 / 2.0)
GridCoord(space, i, n) == Mul(space, i * Scale - RoundDiv(n * Scale, 2))

\* InstanceRotation with the test for zero looking at x alone
InstanceRotationXOnly(position) ==
    IF position[1] = 0
    THEN FromAxisAngle(Vec(0, 0, Scale), 0)
    ELSE FromAxisAngle(Normalize(position), 45)

\* The rotation chosen for a position
InstanceRotation(position) ==
    IF position = ZeroVec
    THEN FromAxisAngle(Vec(0, 0, Scale), 0)
    ELSE FromAxisAngle(Normalize(position), 45)

\* The instance the closure builds for (z, x)
GridInstance(space, n, z, x) ==
    LET position == Vec(GridCoord(space, x, n), 0, GridCoord(space, z, n))
    IN [position |-> position, rotation |-> InstanceRotation(position)]

\* The whole vector (0..N).flat_map(|z| (0..N).map(|x| ..)).collect()
RECURSIVE GridInstancesFrom(_, _, _)
GridInstancesFrom(space, n, built) ==
    IF Len(built) = n * n THEN built
    ELSE GridInstancesFrom(space, n,
             Append(built, GridInstance(space, n, Len(built) \div n, Len(built) % n)))
GridInstances(space, n) == GridInstancesFrom(space, n, <<>>)

\* One item of (0..N).flat_map(|z| (0..N).map(|x| ..))
InstanceNext ==
    /\ ~instances_built
    /\ Len(instances) < num_instances_per_row * num_instances_per_row
    /\ LET k == Len(instances)
           z == k \div num_instances_per_row
           x == k % num_instances_per_row
       IN instances' = Append(instances,
                              GridInstance(space_between, num_instances_per_row, z, x))
    /\ UNCHANGED <<resolution, meshes, sphere_built, num_instances_per_row,
                   space_between, instances_built>>
    /\ UNCHANGED cameraVars
    /\ UNCHANGED windowVars
    /\ UNCHANGED renderVars

\* .collect::<Vec<_>>()
InstancesCollect ==
    /\ ~instances_built
    /\ Len(instances) = num_instances_per_row * num_instances_per_row
    /\ instances_built' = TRUE
    /\ UNCHANGED <<resolution, meshes, sphere_built, num_instances_per_row,
                   space_between, instances>>
    /\ UNCHANGED cameraVars
    /\ UNCHANGED windowVars
    /\ UNCHANGED renderVars

(***************************************************************************)
(* camera.rs: Camera and CameraController.                                 *)
(***************************************************************************)
\* Camera::new; the aspect is width / height of the surface
CameraNew(width, height) ==
    [eye |-> Vec(0, Scale, 2 * Scale),
     target |-> ZeroVec,
     up |-> Vec(0, Scale, 0),
     aspect |-> RoundDiv(width * Scale, height),
     fovy |-> 45 * Scale,
     znear |-> Scale \div 10,
     zfar |-> 100 * Scale,
     nan |-> FALSE]

\* cgmath::Matrix4: four columns of four components, as Matrix4::new takes them
Matrix4(c0, c1, c2, c3) == <<c0, c1, c2, c3>>

\* Matrix4::identity()
Identity4 ==
    Matrix4(<<Scale, 0, 0, 0>>, <<0, Scale, 0, 0>>, <<0, 0, Scale, 0>>, <<0, 0, 0, Scale>>)

\* The product a * b of two fixed-point matrices: the component in row i of
\* column j is the dot product of a's row i and b's column j
MatMul(a, b) ==
    LET Entry(i, j) ==
            RoundDiv(a[1][i] * b[j][1] + a[2][i] * b[j][2]
                        + a[3][i] * b[j][3] + a[4][i] * b[j][4], Scale)
        Column(j) == <<Entry(1, j), Entry(2, j), Entry(3, j), Entry(4, j)>>
    IN Matrix4(Column(1), Column(2), Column(3), Column(4))

\* OPENGL_TO_WGPU_MATRIX
OPENGL_TO_WGPU_MATRIX ==
    Matrix4(<<Scale, 0, 0, 0>>,
            <<0, Scale, 0, 0>>,
            <<0, 0, Scale \div 2, 0>>,
            <<0, 0, Scale \div 2, Scale>>)

\* Matrix4::look_at_rh(eye, center, up), for eye # center and a direction not
\* along up
LookAtRh(eye, center, up) ==
    LET f == Normalize(VSub(center, eye))
        s == Normalize(Cross(f, up))
        u == Cross(s, f)
    IN Matrix4(<<s[1], u[1], -f[1], 0>>,
               <<s[2], u[2], -f[2], 0>>,
               <<s[3], u[3], -f[3], 0>>,
               <<-RoundDiv(Dot(eye, s), Scale), -RoundDiv(Dot(eye, u), Scale),
                 RoundDiv(Dot(eye, f), Scale), Scale>>)

\* cot(fovy / 2) for the field of view the program uses, 45 degrees
CotHalf(fovy) == CASE fovy = 45 * Scale -> 2414

\* cgmath::perspective(Deg(fovy), aspect, near, far), for near < far
Perspective(fovy, aspect, near, far) ==
    LET f == CotHalf(fovy)
    IN Matrix4(<<RoundDiv(f * Scale, aspect), 0, 0, 0>>,
               <<0, f, 0, 0>>,
               <<0, 0, -RoundDiv((far + near) * Scale, far - near), -Scale>>,
               <<0, 0, -RoundDiv(2 * Mul(far, near) * Scale, far - near), 0>>)

\* Camera::build_view_projection_matrix with the uniform's copy of it. The
\* matrix is NaN when the camera is, when eye = target, or when the view
\* direction is along up (look_at_rh normalises a zero vector).
BuildViewProjectionMatrix(cam) ==
    IF \/ cam.nan
       \/ cam.eye = cam.target
       \/ Cross(Normalize(VSub(cam.target, cam.eye)), cam.up) = ZeroVec
    THEN [view_proj |-> Identity4, nan |-> TRUE]
    ELSE [view_proj |->
              MatMul(MatMul(OPENGL_TO_WGPU_MATRIX,
                            Perspective(cam.fovy, cam.aspect, cam.znear, cam.zfar)),
                     LookAtRh(cam.eye, cam.target, cam.up)),
          nan |-> FALSE]

\* CameraUniform::new
CameraUniformNew == [view_proj |-> Identity4, nan |-> FALSE]

\* UpdateViewProj leaving the uniform as it was
UpdateViewProjKept(uniform, cam) == uniform

\* CameraUniform::update_view_proj: the uniform afterwards
UpdateViewProj(uniform, cam) == BuildViewProjectionMatrix(cam)

\* CameraController::new(speed)
CameraControllerNew(speed) ==
    [speed |-> speed,
     is_up_pressed |-> FALSE,
     is_down_pressed |-> FALSE,
     is_forward_pressed |-> FALSE,
     is_backward_pressed |-> FALSE,
     is_left_pressed |-> FALSE,
     is_right_pressed |-> FALSE]

\* winit events, as far as the program looks at them: a WindowEvent of some
\* kind, a keyboard one carrying an ElementState and an Option<VirtualKeyCode>
\* ("None" for none), or RedrawRequested.
KeyStates == {"Pressed", "Released"}
KeyCodes == {"Space", "LShift", "W", "Up", "A", "Left", "S", "Down", "D", "Right",
             "Escape", "Q", "None"}
\* winit::dpi::PhysicalSize<u32>
PhysicalSize(width, height) == [width |-> width, height |-> height]
NoSize == PhysicalSize(0, 0)
KeyboardInput(state, keycode) ==
    [kind |-> "KeyboardInput", state |-> state, virtual_keycode |-> keycode,
     size |-> NoSize]
OtherEvent(kind) ==
    [kind |-> kind, state |-> "None", virtual_keycode |-> "None", size |-> NoSize]
\* WindowEvent::Resized(physical_size)
Resized(physical_size) == [OtherEvent("Resized") EXCEPT !.size = physical_size]
\* WindowEvent::ScaleFactorChanged { new_inner_size, .. }
ScaleFactorChanged(new_inner_size) ==
    [OtherEvent("ScaleFactorChanged") EXCEPT !.size = new_inner_size]
\* The sizes the window system reports: a minimised window has a zero side
Sizes == {PhysicalSize(0, 0), PhysicalSize(0, 3), PhysicalSize(8, 0),
          PhysicalSize(8, 3)}
NoEvent == OtherEvent("None")
RedrawRequested == OtherEvent("RedrawRequested")
WindowEvents ==
    {KeyboardInput(st, k) : st \in KeyStates, k \in KeyCodes}
        \cup {OtherEvent("CloseRequested"), OtherEvent("CursorMoved")}
        \cup {Resized(sz) : sz \in Sizes}
        \cup {ScaleFactorChanged(sz) : sz \in Sizes}

\* KeyFlag with Escape taken for the up key
KeyFlagEscape(keycode) ==
    CASE keycode \in {"Space", "Escape"} -> "is_up_pressed"
      [] keycode = "LShift" -> "is_down_pressed"
      [] keycode \in {"W", "Up"} -> "is_forward_pressed"
      [] keycode \in {"A", "Left"} -> "is_left_pressed"
      [] keycode \in {"S", "Down"} -> "is_backward_pressed"
      [] keycode \in {"D", "Right"} -> "is_right_pressed"
      [] OTHER -> "none"

\* KeyFlag with the left and right keys exchanged
KeyFlagSwapped(keycode) ==
    CASE keycode = "Space" -> "is_up_pressed"
      [] keycode = "LShift" -> "is_down_pressed"
      [] keycode \in {"W", "Up"} -> "is_forward_pressed"
      [] keycode \in {"A", "Left"} -> "is_right_pressed"
      [] keycode \in {"S", "Down"} -> "is_backward_pressed"
      [] keycode \in {"D", "Right"} -> "is_left_pressed"
      [] OTHER -> "none"

\* The arms of `match keycode`: the field an arm assigns, "none" for `_`
KeyFlag(keycode) ==
    CASE keycode = "Space" -> "is_up_pressed"
      [] keycode = "LShift" -> "is_down_pressed"
      [] keycode \in {"W", "Up"} -> "is_forward_pressed"
      [] keycode \in {"A", "Left"} -> "is_left_pressed"
      [] keycode \in {"S", "Down"} -> "is_backward_pressed"
      [] keycode \in {"D", "Right"} -> "is_right_pressed"
      [] OTHER -> "none"

\* CameraController::process_events: the controller afterwards, and the
\* value returned
ProcessEvents(ctrl, ev) ==
    IF ev.kind = "KeyboardInput" /\ ev.virtual_keycode # "None"
    THEN LET is_pressed == (ev.state = "Pressed")
             flag == KeyFlag(ev.virtual_keycode)
         IN IF flag = "none"
            THEN [controller |-> ctrl, ret |-> FALSE]
            ELSE [controller |-> [ctrl EXCEPT ![flag] = is_pressed], ret |-> TRUE]
    ELSE [controller |-> ctrl, ret |-> FALSE]

\* forward_mag >= self.speed in place of >
ForwardGuardInclusive(forward_mag, speed) == forward_mag >= speed

\* no guard at all
ForwardGuardNone(forward_mag, speed) == TRUE

\* forward_mag > self.speed
ForwardGuard(forward_mag, speed) == forward_mag > speed

\* the offset scaled by nothing: target - (forward +- right * speed)
OrbitEyeUnnormalized(target, forward, right, speed, forward_mag, sign) ==
    VSub(target, VAdd(forward, VTimes(VScale(right, speed), sign)))

\* camera.target - (forward +- right * self.speed).normalize() * forward_mag
OrbitEye(target, forward, right, speed, forward_mag, sign) ==
    VSub(target,
         VScale(Normalize(VAdd(forward, VTimes(VScale(right, speed), sign))),
                forward_mag))

\* the left branch reading the eye the right branch has just written
LeftForwardRecomputed(target, eye_before_right, eye_after_right) ==
    VSub(target, eye_after_right)

\* `forward` as the left branch reads it: the value computed before the
\* right branch (line 187), not recomputed after it
LeftForward(target, eye_before_right, eye_after_right) ==
    VSub(target, eye_before_right)

\* the backward branch moving the eye towards the target
BackwardStepTowards(eye, step) == VAdd(eye, step)

\* the backward branch: camera.eye -= forward_norm * self.speed
BackwardStep(eye, step) == VSub(eye, step)

\* the eye assigned and the target carried along with it
AssignEyeMovingTarget(cam, eye, nan) ==
    [cam EXCEPT !.eye = eye, !.nan = nan,
                !.target = VAdd(cam.target, VSub(eye, cam.eye))]

\* What update_camera writes: `camera.eye += ..`, `-= ..`, `= ..` and no
\* other field of the camera
AssignEye(cam, eye, nan) == [cam EXCEPT !.eye = eye, !.nan = nan]

\* CameraController::update_camera: the camera afterwards. A NaN eye (the
\* result of normalising a zero vector) is recorded in `nan`, with the eye
\* held at the zero vector.
UpdateCamera(ctrl, cam) ==
    LET forward == VSub(cam.target, cam.eye)
        \* forward.normalize() is NaN when forward is zero (or NaN already)
        undefined == cam.nan \/ forward = ZeroVec
        forward_norm == IF undefined THEN ZeroVec ELSE Normalize(forward)
        forward_mag == Magnitude(forward)
        step == VScale(forward_norm, ctrl.speed)
        go_forward == /\ ctrl.is_forward_pressed
                      /\ ~cam.nan
                      /\ ForwardGuard(forward_mag, ctrl.speed)
        eye1 == IF go_forward THEN VAdd(cam.eye, step) ELSE cam.eye
        nan1 == cam.nan \/ (go_forward /\ undefined)
        eye2 == IF ctrl.is_backward_pressed THEN BackwardStep(eye1, step) ELSE eye1
        nan2 == nan1 \/ (ctrl.is_backward_pressed /\ undefined)
        right == Cross(forward_norm, cam.up)
        \* Redo the calculations
        forward2 == VSub(cam.target, eye2)
        forward_mag2 == Magnitude(forward2)
        sum_right == VAdd(forward2, VScale(right, ctrl.speed))
        nan_right == undefined \/ nan2 \/ sum_right = ZeroVec
        eye3 == IF ctrl.is_right_pressed /\ ~nan_right
                THEN OrbitEye(cam.target, forward2, right, ctrl.speed, forward_mag2, 1)
                ELSE eye2
        nan3 == IF ctrl.is_right_pressed THEN nan_right ELSE nan2
        forward3 == LeftForward(cam.target, eye2, eye3)
        sum_left == VSub(forward3, VScale(right, ctrl.speed))
        nan_left == undefined \/ nan2 \/ sum_left = ZeroVec
        eye4 == IF ctrl.is_left_pressed /\ ~nan_left
                THEN OrbitEye(cam.target, forward3, right, ctrl.speed, forward_mag2, -1)
                ELSE eye3
        nan4 == IF ctrl.is_left_pressed THEN nan_left ELSE nan3
    IN AssignEye(cam, IF nan4 THEN ZeroVec ELSE eye4, nan4)

(***************************************************************************)
(* The event loop: window events, State::resize and the frame.             *)
(***************************************************************************)
\* wgpu::SurfaceConfiguration as State::new fills it in
SurfaceConfiguration(width, height) ==
    [usage |-> "RENDER_ATTACHMENT", format |-> "preferred_format",
     width |-> width, height |-> height, present_mode |-> "Fifo"]

\* texture::Texture::create_depth_texture(&device, &config, label): the
\* texture made for that configuration under that label
CreateDepthTexture(cfg, label) == [config |-> cfg, label |-> label]

\* What State::resize works on
Surface(sz, cfg, depth) == [size |-> sz, config |-> cfg, depth_texture |-> depth]

\* resize without its guard on the new size
ResizeUnguarded(surface, new_size) ==
    LET new_config == [surface.config EXCEPT !.width = new_size.width,
                                             !.height = new_size.height]
    IN [surface |-> Surface(new_size, new_config,
                            CreateDepthTexture(new_config, "depth_texture")),
        calls |-> <<"create_depth_texture", "surface.configure">>]

\* State::resize: size, config and depth_texture afterwards, and the calls
\* it made
Resize(surface, new_size) ==
    IF new_size.width > 0 /\ new_size.height > 0
    THEN LET new_config == [surface.config EXCEPT !.width = new_size.width,
                                                  !.height = new_size.height]
         IN [surface |-> Surface(new_size, new_config,
                                 CreateDepthTexture(new_config, "depth_texture")),
             calls |-> <<"create_depth_texture", "surface.configure">>]
    ELSE [surface |-> surface, calls |-> <<>>]

\* the arms of `match event` with the Escape arm taking a release as well
WindowArmAnyEscape(ev) ==
    CASE ev.kind = "CloseRequested" -> "exit"
      [] ev.kind = "KeyboardInput" /\ ev.virtual_keycode = "Escape" -> "exit"
      [] ev.kind = "Resized" -> "resize"
      [] ev.kind = "ScaleFactorChanged" -> "resize"
      [] OTHER -> "none"

\* The arms of `match event` in the event loop: what the arm the event
\* matches does
WindowArm(ev) ==
    CASE ev.kind = "CloseRequested" -> "exit"
      [] /\ ev.kind = "KeyboardInput"
         /\ ev.state = "Pressed"
         /\ ev.virtual_keycode = "Escape" -> "exit"
      [] ev.kind = "Resized" -> "resize"
      [] ev.kind = "ScaleFactorChanged" -> "resize"
      [] OTHER -> "none"

\* `if !state.input(event)`: the match is entered when the controller did
\* not consume the event
FallsThrough(ret) == ~ret

\* Event::WindowEvent (the program has one window, so window_id is its id):
\* state.input(event), i.e. process_events, and, when that returned false,
\* the arm of `match event` the event matches
WindowEvent(ev) ==
    /\ controller' = ProcessEvents(controller, ev).controller
    /\ consumed' = ProcessEvents(controller, ev).ret
    /\ event' = ev
    /\ LET arm == IF FallsThrough(consumed') THEN WindowArm(ev) ELSE "none"
           resized == IF arm = "resize"
                      THEN Resize(Surface(size, config, depth_texture), ev.size)
                      ELSE [surface |-> Surface(size, config, depth_texture),
                            calls |-> <<>>]
       IN /\ control_flow' = IF arm = "exit" THEN "Exit" ELSE control_flow
          /\ size' = resized.surface.size
          /\ config' = resized.surface.config
          /\ depth_texture' = resized.surface.depth_texture
          /\ calls' = resized.calls
    /\ UNCHANGED rendered
    /\ UNCHANGED <<camera, frames>>
    /\ UNCHANGED buildVars
    /\ UNCHANGED renderVars

\* State::render, when the surface gives a texture: the commands of the
\* render pass. The instance buffer holds the instances' data. main.rs hands
\* draw_sphere_instanced the sphere, 0..instances.len() and the camera bind
\* group; the light bind group is the one state.rs hands it.
StateRender(sphere, insts) ==
    DrawSphereInstanced(<<SetVertexBuffer(1, insts), SetPipeline("render_pipeline")>>,
                        sphere, <<0, Len(insts)>>,
                        "camera_bind_group", "light_bind_group")

\* What queue.submit hands over: the commands, and the contents of the
\* camera buffer they will read through camera_bind_group
Submission(commands, buffer) == [commands |-> commands, camera_buffer |-> buffer]
NoSubmission == Submission(<<>>, CameraUniformNew)

\* What surface.get_current_texture() can return: a texture, or a
\* wgpu::SurfaceError
SurfaceErrors == {"Timeout", "Outdated", "Lost", "OutOfMemory"}
SurfaceResults == {"Ok"} \cup SurfaceErrors

\* the arms of `match state.render()` with Lost and OutOfMemory exchanged
RenderArmSwapped(result) ==
    CASE result = "Ok" -> "none"
      [] result = "Lost" -> "exit"
      [] result = "OutOfMemory" -> "resize"
      [] OTHER -> "eprintln"

\* The arms of `match state.render()` in the event loop
RenderArm(result) ==
    CASE result = "Ok" -> "none"
      [] result = "Lost" -> "resize"
      [] result = "OutOfMemory" -> "exit"
      [] OTHER -> "eprintln"

\* The calls of State::update, and of State::render when the surface gives
\* a texture
UpdateCalls == <<"queue.write_buffer">>
RenderCalls ==
    <<"surface.get_current_texture", "device.create_command_encoder",
      "encoder.begin_render_pass", "queue.submit", "output.present">>

\* Event::RedrawRequested: state.update() (update_camera, then
\* update_view_proj of the camera as it now is, then queue.write_buffer of
\* the uniform to the camera buffer), then state.render(): the pass, then
\* queue.submit and present when the surface gives a texture, and nothing
\* but the error's arm of the match when get_current_texture()? returns
\* the error
Redraw(result) ==
    /\ frames < MaxFrames
    /\ camera' = UpdateCamera(controller, camera)
    /\ camera_uniform' = UpdateViewProj(camera_uniform, camera')
    /\ camera_buffer' = camera_uniform'
    /\ rendered' = result
    /\ IF result = "Ok"
       THEN /\ render_pass' = StateRender(meshes, instances)
            /\ submitted' = Submission(render_pass', camera_buffer')
       ELSE /\ render_pass' = <<>>
            /\ UNCHANGED submitted
    /\ LET arm == RenderArm(result)
           tried == UpdateCalls \o (IF result = "Ok" THEN RenderCalls
                                    ELSE <<"surface.get_current_texture">>)
           resized == IF arm = "resize"
                      THEN Resize(Surface(size, config, depth_texture), size)
                      ELSE [surface |-> Surface(size, config, depth_texture),
                            calls |-> <<>>]
       IN /\ control_flow' = IF arm = "exit" THEN "Exit" ELSE control_flow
          /\ size' = resized.surface.size
          /\ config' = resized.surface.config
          /\ depth_texture' = resized.surface.depth_texture
          /\ calls' = tried \o resized.calls
                          \o (IF arm = "eprintln" THEN <<"eprintln">> ELSE <<>>)
    /\ frames' = frames + 1
    /\ event' = RedrawRequested
    /\ consumed' = FALSE
    /\ UNCHANGED controller
    /\ UNCHANGED buildVars

\* State::new after the camera is built: the uniform is made from the camera
\* and the camera buffer is created with the uniform as its contents; no
\* render pass has been recorded.
InitRender ==
    /\ camera_uniform = UpdateViewProj(CameraUniformNew, camera)
    /\ camera_buffer = UpdateViewProj(CameraUniformNew, camera)
    /\ render_pass = <<>>
    /\ submitted = NoSubmission

\* State::new for a window of the given inner size: the surface is
\* configured for it and the depth texture made for that configuration; the
\* event loop starts with control flow Poll
InitWindow(width, height) ==
    /\ control_flow = "Poll"
    /\ size = PhysicalSize(width, height)
    /\ config = SurfaceConfiguration(width, height)
    /\ depth_texture = CreateDepthTexture(SurfaceConfiguration(width, height),
                                          "depth_texture")
    /\ rendered = "None"
    /\ calls = <<>>

(***************************************************************************)
(* Construction: State::new builds the instances, then the sphere.         *)
(***************************************************************************)
MaxSpacing == 3

InitBuild ==
    /\ resolution \in 0..MaxResolution
    /\ meshes = <<>>
    /\ sphere_built = FALSE
    /\ num_instances_per_row \in 0..MaxPerRow
    /\ space_between \in {k * Scale : k \in 1..MaxSpacing}
    /\ instances = <<>>
    /\ instances_built = FALSE
    /\ camera = CameraNew(4, 3)
    /\ controller = CameraControllerNew(Scale \div 5)
    /\ event = NoEvent
    /\ consumed = FALSE
    /\ frames = 0
    /\ InitRender
    /\ InitWindow(4, 3)

NextBuild == InstanceNext \/ InstancesCollect \/ SphereLoop \/ SphereReturn

SpecBuild == InitBuild /\ [][NextBuild]_vars

(***************************************************************************)
(* Claims about construction, checked under SpecBuild.                     *)
(***************************************************************************)
\* The rounding tolerance for a vector of magnitude d: a unit vector is
\* held to 1/Scale, so a vector of magnitude d scaled from it to d/Scale
RelTolerance(d) == Tolerance * (1 + d \div Scale)

\* The coordinates of a and b differ by at most tol
Near(a, b, tol) == \A i \in 1..3 : Abs(a[i] - b[i]) <= tol

\* C1: every mesh built with a resolution R >= 2, whatever its local-up, has
\* exactly R*R vertices and 6*(R-1)*(R-1) indices (num_elements), and every
\* index lies in [0, R*R).
C1_MeshCounts ==
    \A k \in 1..Len(meshes) :
        LET m == meshes[k]
            R == m.resolution
        IN R >= 2 =>
            /\ Len(m.vertex_buffer) = R * R
            /\ Len(m.index_buffer) = 6 * (R - 1) * (R - 1)
            /\ m.num_elements = 6 * (R - 1) * (R - 1)
            /\ \A j \in 1..Len(m.index_buffer) :
                   m.index_buffer[j] >= 0 /\ m.index_buffer[j] < R * R

\* C1 witness: a whole sphere built with a resolution of at least 3.
C1_Witness ==
    /\ sphere_built
    /\ resolution >= 3
    /\ Len(meshes) = 6
    /\ meshes[6].num_elements > 6

\* C2 (as claimed): with a resolution below 2 mesh generation fails, so no
\* mesh is ever produced and no vertex is computed from a division by
\* resolution - 1 = 0.
C2_SmallResolutionRejected ==
    resolution < 2 =>
        /\ meshes = <<>>
        /\ \A k \in 1..Len(meshes) : \A j \in 1..Len(meshes[k].vertex_buffer) :
               ~meshes[k].vertex_buffer[j].nan

\* C3: for every resolution Sphere::new returns exactly 6 meshes, built in
\* the order up (+Y), down (-Y), left (-X), right (+X), forward (+Z),
\* back (-Z), each with the resolution Sphere::new was given.
C3_SixFacesInOrder ==
    /\ Len(meshes) <= 6
    /\ sphere_built => Len(meshes) = 6
    /\ \A k \in 1..Len(meshes) :
        /\ meshes[k].resolution = resolution
        /\ meshes[k].local_up =
              CASE k = 1 -> <<0, Scale, 0>>
                [] k = 2 -> <<0, -Scale, 0>>
                [] k = 3 -> <<-Scale, 0, 0>>
                [] k = 4 -> <<Scale, 0, 0>>
                [] k = 5 -> <<0, 0, Scale>>
                [] k = 6 -> <<0, 0, -Scale>>

\* C3 witness: Sphere::new has returned for a resolution of at least 2.
C3_Witness == sphere_built /\ resolution >= 2 /\ Len(meshes) = 6

\* C10 (as claimed): the grid for 1 row and 1 column with spacing 3.0 holds
\* exactly 1 instance, at (0, 0, 0), with the identity rotation.
C10_SingleInstanceAtOrigin ==
    (instances_built /\ num_instances_per_row = 1 /\ space_between = 3 * Scale) =>
        /\ Len(instances) = 1
        /\ instances[1].position = <<0, 0, 0>>
        /\ instances[1].rotation = [s |-> Scale, v |-> <<0, 0, 0>>]

\* C10 (amended): the grid for 1 row and 1 column with spacing 3.0 holds
\* exactly 1 instance, at (-1.5, 0, -1.5), i.e. spacing * (0 - 1/2) along x
\* and z, rotated by 45 degrees about its normalised position:
\* s = cos 22.5 deg, v = sin 22.5 deg * (-0.707, 0, -0.707).
C10_SingleInstanceOffCentre ==
    (instances_built /\ num_instances_per_row = 1 /\ space_between = 3 * Scale) =>
        /\ Len(instances) = 1
        /\ instances[1].position = <<-1500, 0, -1500>>
        /\ instances[1].rotation = [s |-> 924, v |-> <<-271, 0, -271>>]

\* C10 witness: the 1 x 1 grid with spacing 3.0 has been collected.
C10_Witness ==
    /\ instances_built
    /\ num_instances_per_row = 1
    /\ space_between = 3 * Scale
    /\ Len(instances) = 1

\* The rotation Quaternion::from_axis_angle gives for the angle 0
IdentityRotation == [s |-> Scale, v |-> <<0, 0, 0>>]

\* The x coordinates and the z coordinates of the instances built so far
InstanceXs == {instances[k].position[1] : k \in 1..Len(instances)}
InstanceZs == {instances[k].position[3] : k \in 1..Len(instances)}

\* C11 (as claimed): the grid is centred on the origin: for a count of 2 with
\* spacing 3.0 the two coordinates along an axis are -1.5 and +1.5, and no
\* instance has the identity rotation.
C11_GridCentred ==
    (instances_built /\ num_instances_per_row = 2 /\ space_between = 3 * Scale) =>
        /\ InstanceXs = {-1500, 1500}
        /\ InstanceZs = {-1500, 1500}
        /\ \A k \in 1..Len(instances) : instances[k].rotation # IdentityRotation

\* C11 (amended): for a count of 2 with spacing 3.0 the two coordinates along
\* an axis are -3.0 and 0.0, i.e. spacing * (index - 2 / 2.0): the grid's
\* last corner, not its centre, is at the origin. The 4 instances are laid
\* out row by row (z outer, x inner); the one at the origin (indices 1, 1) has
\* the identity rotation and the three others have a non-identity rotation.
C11_GridCornerAtOrigin ==
    (instances_built /\ num_instances_per_row = 2 /\ space_between = 3 * Scale) =>
        /\ Len(instances) = 4
        /\ InstanceXs = {-3000, 0}
        /\ InstanceZs = {-3000, 0}
        /\ instances[1].position = <<-3000, 0, -3000>>
        /\ instances[2].position = <<0, 0, -3000>>
        /\ instances[3].position = <<-3000, 0, 0>>
        /\ instances[4].position = <<0, 0, 0>>
        /\ \A k \in 1..3 : instances[k].rotation # IdentityRotation
        /\ instances[4].rotation = IdentityRotation

\* C11 witness: the 2 x 2 grid with spacing 3.0 has been collected.
C11_Witness ==
    /\ instances_built
    /\ num_instances_per_row = 2
    /\ space_between = 3 * Scale
    /\ Len(instances) = 4
    /\ instances[4].rotation = IdentityRotation

\* C12: for every grid size and spacing, an instance at the zero vector has
\* the identity rotation, and every other instance has a position of non-zero
\* magnitude (so normalize never divides by zero) and the rotation by 45
\* degrees about it: scalar part cos 22.5 deg, vector part of length
\* sin 22.5 deg, parallel to the position and pointing the same way. Every
\* instance has height y = 0, and the collected grid holds count * count
\* instances.
C12_RotationPolicy ==
    /\ Len(instances) <= num_instances_per_row * num_instances_per_row
    /\ instances_built =>
           Len(instances) = num_instances_per_row * num_instances_per_row
    /\ \A k \in 1..Len(instances) :
        LET p == instances[k].position
            q == instances[k].rotation
        IN /\ p[2] = 0
           /\ p = ZeroVec => q = IdentityRotation
           /\ p # ZeroVec =>
                /\ Magnitude(p) > 0
                /\ q.s = 924
                /\ Abs(Magnitude(q.v) - 383) <= Tolerance
                /\ Near(Cross(q.v, p), ZeroVec, RelTolerance(Magnitude(p)))
                /\ Dot(q.v, p) > 0

\* C12 witness: a collected grid with an instance at the zero vector and
\* instances elsewhere.
C12_Witness ==
    /\ instances_built
    /\ Len(instances) = 4
    /\ \E k \in 1..Len(instances) : instances[k].position = ZeroVec
    /\ \E k \in 1..Len(instances) :
           /\ instances[k].position # ZeroVec
           /\ instances[k].rotation # IdentityRotation

\* C13: for every resolution R >= 2 and each of the 6 directions, every
\* vertex position emitted by Mesh::new is a number (not NaN) and has
\* magnitude 1, within the rounding of the arithmetic.
C13_VerticesOnUnitSphere ==
    \A k \in 1..Len(meshes) :
        meshes[k].resolution >= 2 =>
            \A j \in 1..Len(meshes[k].vertex_buffer) :
                LET v == meshes[k].vertex_buffer[j]
                IN /\ ~v.nan
                   /\ Abs(Magnitude(v.position) - Scale) <= Tolerance

\* C13 witness: all 6 faces are built with R >= 2, and a vertex whose point
\* on the cube is a corner (magnitude sqrt 3) has been brought onto the
\* sphere.
C13_Witness ==
    /\ Len(meshes) = 6
    /\ resolution >= 2
    /\ \A k \in 1..6 : \E j \in 1..Len(meshes[k].vertex_buffer) :
           LET v == meshes[k].vertex_buffer[j]
           IN /\ Magnitude(v.cube) > Scale + 500
              /\ Abs(Magnitude(v.position) - Scale) <= Tolerance

\* Two faces are adjacent when their local-ups are perpendicular
Adjacent(a, b) == Dot(meshes[a].local_up, meshes[b].local_up) = 0

\* The points of face a, before normalisation, on the cube edge it shares
\* with face b: those whose coordinate along b's local-up is 1
EdgePoints(a, b) ==
    {meshes[a].vertex_buffer[j].cube : j \in
        {i \in 1..Len(meshes[a].vertex_buffer) :
            Dot(meshes[a].vertex_buffer[i].cube, meshes[b].local_up) = Scale * Scale}}

\* Every point of P has a point of Q within tol of it
CoveredBy(P, Q, tol) == \A p \in P : \E q \in Q : Near(p, q, tol)

C15_PointsInHemisphere ==
    \A k \in 1..Len(meshes) :
        meshes[k].resolution >= 2 =>
            \A j \in 1..Len(meshes[k].vertex_buffer) :
                LET v == meshes[k].vertex_buffer[j]
                IN /\ Dot(v.cube, meshes[k].local_up) = Scale * Scale
                   /\ Dot(v.position, meshes[k].local_up) > 0

\* C15 witness: all 6 faces are built with R >= 3, each with its centre point
\* (local_up itself) and points away from the centre.
C15_Witness ==
    /\ Len(meshes) = 6
    /\ resolution >= 3
    /\ \A k \in 1..6 :
           /\ \E j \in 1..Len(meshes[k].vertex_buffer) :
                  meshes[k].vertex_buffer[j].cube = meshes[k].local_up
           /\ \E j \in 1..Len(meshes[k].vertex_buffer) :
                  /\ meshes[k].vertex_buffer[j].cube # meshes[k].local_up
                  /\ Dot(meshes[k].vertex_buffer[j].cube, meshes[k].local_up) > 0

\* The grid coordinates whose vertices the six indices pushed in the pass
\* (x, y) of the loops of mesh m refer to. The passes that push indices are
\* those with x, y < R - 1, in the order of the loops, six indices each.
CellCorners(m, x, y) ==
    LET g == x * (m.resolution - 1) + y
    IN {m.vertex_buffer[m.index_buffer[6 * g + n] + 1].at : n \in 1..6}

\* C18 (as claimed): for every cell (x, y) with x, y < R - 1 the six indices
\* pushed for it refer to the vertices computed for (x, y), (x+1, y),
\* (x, y+1), (x+1, y+1), and the vertex stored at index x + y * R is the one
\* computed for grid coordinate (x, y).
C18_IndicesOfOwnCell ==
    \A k \in 1..Len(meshes) :
        LET m == meshes[k]
            R == m.resolution
        IN R >= 2 =>
            /\ \A x, y \in 0..(R - 2) :
                   CellCorners(m, x, y) =
                       {<<x, y>>, <<x + 1, y>>, <<x, y + 1>>, <<x + 1, y + 1>>}
            /\ \A x, y \in 0..(R - 1) :
                   m.vertex_buffer[x + y * R + 1].at = <<x, y>>

\* C18 (amended): the vertex computed for grid coordinate (x, y) is stored at
\* index y + x * R (the loops run x outside, y inside), so the vertex stored
\* at index x + y * R is the one computed for (y, x); the six indices pushed
\* in the pass (x, y) refer to the vertices computed for the four corners of
\* the transposed cell: (y, x), (y+1, x), (y, x+1), (y+1, x+1). Every cell
\* of the grid is still covered by exactly one pass.
C18_IndicesOfTransposedCell ==
    \A k \in 1..Len(meshes) :
        LET m == meshes[k]
            R == m.resolution
        IN R >= 2 =>
            /\ \A x, y \in 0..(R - 2) :
                   CellCorners(m, x, y) =
                       {<<y, x>>, <<y + 1, x>>, <<y, x + 1>>, <<y + 1, x + 1>>}
            /\ \A x, y \in 0..(R - 1) :
                   /\ m.vertex_buffer[x + y * R + 1].at = <<y, x>>
                   /\ m.vertex_buffer[y + x * R + 1].at = <<x, y>>
            /\ \A cx, cy \in 0..(R - 2) :
                   Cardinality({c \in (0..(R - 2)) \X (0..(R - 2)) :
                       CellCorners(m, c[1], c[2]) =
                           {<<cx, cy>>, <<cx + 1, cy>>, <<cx, cy + 1>>,
                            <<cx + 1, cy + 1>>}}) = 1

\* C18 witness: a face with R >= 3 is built, and its vertex at index
\* 1 + 0 * R is the one computed for (0, 1), the indices pushed in the pass
\* (1, 0) referring to the corners of the cell (0, 1).
C18_Witness ==
    /\ Len(meshes) >= 1
    /\ resolution >= 3
    /\ meshes[1].vertex_buffer[2].at = <<0, 1>>
    /\ <<0, 2>> \in CellCorners(meshes[1], 1, 0)

\* The three indices of triangle number t (from 0) of mesh m
Triangle(m, t) ==
    <<m.index_buffer[3 * t + 1], m.index_buffer[3 * t + 2], m.index_buffer[3 * t + 3]>>

\* Twice the signed area of triangle t in grid coordinates: the sign tells
\* which way the triangle is wound
Orientation(m, t) ==
    LET a == m.vertex_buffer[Triangle(m, t)[1] + 1].at
        b == m.vertex_buffer[Triangle(m, t)[2] + 1].at
        c == m.vertex_buffer[Triangle(m, t)[3] + 1].at
    IN (b[1] - a[1]) * (c[2] - a[2]) - (b[2] - a[2]) * (c[1] - a[1])

\* C19: every pass (x, y) with x, y < R - 1 contributes exactly two
\* triangles, (i, i+R+1, i+R) and (i, i+1, i+R+1) with i = x + y * R, and no
\* other pass contributes any; each triangle has three distinct indices, the
\* two share exactly the diagonal i, i+R+1, and all triangles of a face are
\* wound the same way in grid coordinates.
C19_TwoTrianglesPerCell ==
    \A k \in 1..Len(meshes) :
        LET m == meshes[k]
            R == m.resolution
        IN R >= 2 =>
            /\ Len(m.index_buffer) = 2 * 3 * (R - 1) * (R - 1)
            /\ \A x, y \in 0..(R - 2) :
                   LET g == x * (R - 1) + y
                       i == x + y * R
                       first == Triangle(m, 2 * g)
                       second == Triangle(m, 2 * g + 1)
                       Of(t) == {t[1], t[2], t[3]}
                   IN /\ first = <<i, i + R + 1, i + R>>
                      /\ second = <<i, i + 1, i + R + 1>>
                      /\ Cardinality(Of(first)) = 3
                      /\ Cardinality(Of(second)) = 3
                      /\ Of(first) \cap Of(second) = {i, i + R + 1}
            /\ \A t \in 0..(2 * (R - 1) * (R - 1) - 1) :
                   /\ Orientation(m, t) # 0
                   /\ Orientation(m, t) = Orientation(m, 0)

\* C19 witness: a face of at least 4 cells is built, its 8 or more
\* triangles all wound one way.
C19_Witness ==
    /\ Len(meshes) >= 1
    /\ resolution >= 3
    /\ Len(meshes[1].index_buffer) >= 24
    /\ \A t \in 0..7 : Orientation(meshes[1], t) = Orientation(meshes[1], 0)
    /\ Orientation(meshes[1], 0) # 0

\* C20: for each of the 6 directions, axis_a is (up.y, up.z, up.x), axis_b
\* is the cross product up x axis_a, both are unit vectors, and local_up,
\* axis_a and axis_b are pairwise orthogonal (a right-handed frame).
C20_AxesOrthonormal ==
    \A k \in 1..Len(meshes) :
        LET up == meshes[k].local_up
            a == meshes[k].axis_a
            b == meshes[k].axis_b
        IN /\ a = <<up[2], up[3], up[1]>>
           /\ Magnitude(up) = Scale
           /\ Magnitude(a) = Scale
           /\ Magnitude(b) = Scale
           /\ Dot(up, a) = 0
           /\ Dot(up, b) = 0
           /\ Dot(a, b) = 0
           /\ Dot(CrossRaw(up, a), b) = Scale * Scale * Scale

\* C20 witness: the axes of all 6 faces are computed, the last (back,
\* up = -Z) with axis_a = -Y and axis_b = -X.
C20_Witness ==
    /\ Len(meshes) = 6
    /\ meshes[6].axis_a = <<0, -Scale, 0>>
    /\ meshes[6].axis_b = <<-Scale, 0, 0>>
    /\ Cardinality({meshes[k].axis_a : k \in 1..6}) = 6

(***************************************************************************)
(* Drawing: draw_sphere_instanced and draw_sphere applied to a render pass *)
(* of a built sphere, with the ranges and bind groups a caller may pass.   *)
(***************************************************************************)
MaxDraws == 2

BindGroups == {"camera_bind_group", "light_bind_group"}
\* The resolutions of the spheres drawn: the draws take the buffers as they
\* are, whatever they hold
DrawResolutions == {0, 1, 2, 3}
InstanceRanges == {<<0, n>> : n \in 0..MaxPerRow}

InitDraw ==
    /\ resolution \in DrawResolutions
    /\ meshes = SphereNew(resolution)
    /\ sphere_built = TRUE
    /\ num_instances_per_row = 1
    /\ space_between = 3 * Scale
    /\ instances = GridInstances(3 * Scale, 1)
    /\ instances_built = TRUE
    /\ camera = CameraNew(4, 3)
    /\ controller = CameraControllerNew(Scale \div 5)
    /\ event = NoEvent
    /\ consumed = FALSE
    /\ frames = 0
    /\ InitRender
    /\ InitWindow(4, 3)

\* render_pass.draw_sphere_instanced(&sphere, range, camera_bind_group,
\* light_bind_group)
DrawSphereInstancedCall(range, camera_bind_group, light_bind_group) ==
    /\ Len(render_pass) < MaxDraws * 5 * Len(meshes)
    /\ render_pass' = DrawSphereInstanced(render_pass, meshes, range,
                                          camera_bind_group, light_bind_group)
    /\ UNCHANGED <<camera_uniform, camera_buffer, submitted>>
    /\ UNCHANGED buildVars
    /\ UNCHANGED cameraVars
    /\ UNCHANGED windowVars

\* render_pass.draw_sphere(&sphere, camera_bind_group, light_bind_group)
DrawSphereCall(camera_bind_group, light_bind_group) ==
    /\ Len(render_pass) < MaxDraws * 5 * Len(meshes)
    /\ render_pass' = DrawSphere(render_pass, meshes, camera_bind_group,
                                 light_bind_group)
    /\ UNCHANGED <<camera_uniform, camera_buffer, submitted>>
    /\ UNCHANGED buildVars
    /\ UNCHANGED cameraVars
    /\ UNCHANGED windowVars

NextDraw ==
    \/ \E range \in InstanceRanges : \E c, l \in BindGroups :
           c # l /\ DrawSphereInstancedCall(range, c, l)
    \/ \E c, l \in BindGroups : c # l /\ DrawSphereCall(c, l)

SpecDraw == InitDraw /\ [][NextDraw]_vars

\* The positions of the draws in a pass, and the number of a draw among them
DrawPositions(pass) == {n \in 1..Len(pass) : pass[n].op = "draw_indexed"}
DrawNumber(pass, n) == Cardinality({m \in DrawPositions(pass) : m <= n})

\* The positions before n of the commands that set what `op` sets at `slot`
SetBefore(pass, n, op, slot) ==
    {m \in 1..(n - 1) : pass[m].op = op /\ pass[m].slot = slot}

\* What is bound at the draw at position n: the last such command before it
\* (the position 0 if there is none)
BoundAt(pass, n, op, slot) ==
    LET before == SetBefore(pass, n, op, slot)
    IN IF before = {} THEN 0
       ELSE CHOOSE m \in before : \A other \in before : other <= m

\* The draw at position n of a pass draws mesh `mesh` over the instances
\* `range` with the two bind groups: its own indexed draw, with the mesh's
\* vertex buffer in slot 0, its index buffer, its index count, and the bind
\* groups at indices 0 and 1
DrawsMesh(pass, n, mesh, range, camera_bind_group, light_bind_group) ==
    LET vb == BoundAt(pass, n, "set_vertex_buffer", 0)
        ib == BoundAt(pass, n, "set_index_buffer", 0)
        cg == BoundAt(pass, n, "set_bind_group", 0)
        lg == BoundAt(pass, n, "set_bind_group", 1)
    IN /\ pass[n].indices = <<0, mesh.num_elements>>
       /\ pass[n].base_vertex = 0
       /\ pass[n].instances = range
       /\ vb # 0
       /\ pass[vb].buffer = mesh.vertex_buffer
       /\ ib # 0
       /\ pass[ib].buffer = mesh.index_buffer
       /\ pass[ib].handle = "Uint32"
       /\ cg # 0
       /\ pass[cg].handle = camera_bind_group
       /\ lg # 0
       /\ pass[lg].handle = light_bind_group

\* The commands `out` has after the first `from`
Recorded(out, from) == SubSeq(out, from + 1, Len(out))

\* `out` is `pass` followed by exactly one draw per mesh of the sphere, in the
\* stored order, each over `range` with the same two bind groups
DrawsSphereOnce(pass, out, sphere, range, camera_bind_group, light_bind_group) ==
    LET new == Recorded(out, Len(pass))
        draws == DrawPositions(new)
    IN /\ Len(out) >= Len(pass)
       /\ SubSeq(out, 1, Len(pass)) = pass
       /\ Cardinality(draws) = Len(sphere)
       /\ \A n \in draws :
              DrawsMesh(new, n, sphere[Cardinality({m \in draws : m <= n})],
                        range, camera_bind_group, light_bind_group)

\* C16: from any pass, draw_sphere_instanced records exactly one indexed draw
\* per face mesh, for all 6 meshes in their stored order, each with that
\* mesh's own vertex buffer, index buffer and index count, each over the
\* instance range it was given and with the camera and light bind groups it
\* was given; draw_sphere records the same with the instance range 0..1.
\* The pass recorded before is left as it was, so a pass that was only drawn
\* into by the two holds a whole number of such rounds of 6 draws.
C16_OneDrawPerMesh ==
    /\ Len(meshes) = 6
    /\ \A c, l \in BindGroups :
        /\ \A range \in InstanceRanges :
               DrawsSphereOnce(render_pass,
                               DrawSphereInstanced(render_pass, meshes, range, c, l),
                               meshes, range, c, l)
        /\ DrawsSphereOnce(render_pass, DrawSphere(render_pass, meshes, c, l),
                           meshes, <<0, 1>>, c, l)
    /\ Cardinality(DrawPositions(render_pass)) % 6 = 0
    /\ \A n \in DrawPositions(render_pass) :
           LET first == n - 5 * ((DrawNumber(render_pass, n) - 1) % 6)
           IN DrawsMesh(render_pass, n,
                        meshes[((DrawNumber(render_pass, n) - 1) % 6) + 1],
                        render_pass[first].instances,
                        render_pass[first - 2].handle,
                        render_pass[first - 1].handle)

\* C16 witness: a pass into which a sphere of R >= 2 was drawn twice, once
\* over the instances 0..1 and once over 0..2, 6 draws each.
C16_Witness ==
    /\ resolution >= 2
    /\ Cardinality(DrawPositions(render_pass)) = 12
    /\ render_pass[5].op = "draw_indexed"
    /\ render_pass[5].instances = <<0, 1>>
    /\ render_pass[5].indices = <<0, meshes[1].num_elements>>
    /\ render_pass[60].op = "draw_indexed"
    /\ render_pass[60].instances = <<0, 2>>
    /\ render_pass[60].indices = <<0, meshes[6].num_elements>>

(***************************************************************************)
(* Frames: the event loop of the program as built, with its sphere (at a   *)
(* small resolution), its one instance, its camera and its controller.     *)
(***************************************************************************)
InitFrame ==
    /\ resolution = 2
    /\ meshes = SphereNew(2)
    /\ sphere_built = TRUE
    /\ num_instances_per_row = 1
    /\ space_between = 3 * Scale
    /\ instances = GridInstances(3 * Scale, 1)
    /\ instances_built = TRUE
    /\ camera = CameraNew(4, 3)
    /\ controller = CameraControllerNew(Scale \div 5)
    /\ event = NoEvent
    /\ consumed = FALSE
    /\ frames = 0
    /\ InitRender
    /\ InitWindow(4, 3)

\* The keys pressed and released between the frames
FrameEvents == {KeyboardInput(st, k) : st \in KeyStates, k \in {"W", "S", "D"}}

NextFrame == (\E ev \in FrameEvents : WindowEvent(ev)) \/ Redraw("Ok")

SpecFrame == InitFrame /\ [][NextFrame]_vars

\* A step of the event loop that handles RedrawRequested: a frame
IsFrame == event' = RedrawRequested /\ frames' = frames + 1

\* Every draw of a pass reads the camera through bind group 0
DrawsReadCamera(pass) ==
    \A n \in DrawPositions(pass) :
        /\ BoundAt(pass, n, "set_bind_group", 0) # 0
        /\ pass[BoundAt(pass, n, "set_bind_group", 0)].handle = "camera_bind_group"

\* C17: a frame runs update_camera, then rebuilds the camera uniform from
\* the camera it produced and writes it to the camera buffer, then submits
\* the draws: the camera buffer the submitted draws read holds the
\* view-projection of the camera update_camera produced in that frame, every
\* draw reads it through camera_bind_group, and all 6 meshes are drawn over
\* all instances. An input event is handled between frames only: it changes
\* the controller and leaves the camera, the uniform, the camera buffer and
\* what was submitted as they are.
C17_FrameOrder ==
    [][/\ IsFrame =>
            /\ camera' = UpdateCamera(controller, camera)
            /\ camera_uniform' = BuildViewProjectionMatrix(camera')
            /\ camera_buffer' = BuildViewProjectionMatrix(camera')
            /\ submitted'.camera_buffer = BuildViewProjectionMatrix(camera')
            /\ submitted'.commands = render_pass'
            /\ Cardinality(DrawPositions(submitted'.commands)) = 6
            /\ DrawsReadCamera(submitted'.commands)
            /\ \A n \in DrawPositions(submitted'.commands) :
                   submitted'.commands[n].instances = <<0, Len(instances)>>
       /\ ~IsFrame =>
            UNCHANGED <<camera, camera_uniform, camera_buffer, render_pass, submitted>>
      ]_vars

\* C17 witness: after frames in which a key was held, the camera has moved
\* from where it was built and the last submitted draws read the
\* view-projection of the camera as it now is, not of the camera as built.
C17_Witness ==
    /\ frames >= 2
    /\ event = RedrawRequested
    /\ camera.eye # CameraNew(4, 3).eye
    /\ ~camera.nan
    /\ submitted.camera_buffer = BuildViewProjectionMatrix(camera)
    /\ submitted.camera_buffer # BuildViewProjectionMatrix(CameraNew(4, 3))
    /\ Cardinality(DrawPositions(submitted.commands)) = 6

(***************************************************************************)
(* The camera under key events and frames.                                 *)
(***************************************************************************)
\* State::new builds the camera and its controller (main.rs:123-136) before
\* the instances and the sphere, and camera.rs reads and writes neither: the
\* specifications of the camera hold the construction variables at the
\* values they have when the camera is built.
\* The cameras and speeds frames are run from: the program's own
\* (eye (0, 1, 2), speed 0.2) and others with eye != target and speed > 0.
Starts ==
    {[eye |-> Vec(0, Scale, 2 * Scale), speed |-> Scale \div 5],
     [eye |-> Vec(0, Scale, 2 * Scale), speed |-> (3 * Scale) \div 2],
     [eye |-> Vec(0, 0, 2 * Scale), speed |-> Scale],
     [eye |-> Vec(Scale, Scale, Scale), speed |-> Scale \div 2]}

InitCamera ==
    /\ resolution = 0
    /\ meshes = <<>>
    /\ sphere_built = FALSE
    /\ num_instances_per_row = 0
    /\ space_between = 3 * Scale
    /\ instances = <<>>
    /\ instances_built = FALSE
    /\ \E st \in Starts :
        /\ camera = [CameraNew(4, 3) EXCEPT !.eye = st.eye]
        /\ controller = CameraControllerNew(st.speed)
    /\ event = NoEvent
    /\ consumed = FALSE
    /\ frames = 0
    /\ InitRender
    /\ InitWindow(4, 3)

\* The keys that move the camera, for the runs with frames. update_camera
\* runs before the surface texture is asked for, so these runs take the
\* frames in which it is given; SpecLoop takes the others as well.
MoveEvents == {KeyboardInput(st, k) : st \in KeyStates, k \in {"W", "A", "S", "D"}}

Next == (\E ev \in MoveEvents : WindowEvent(ev)) \/ Redraw("Ok")

Spec == InitCamera /\ [][Next]_vars

\* The controller alone under every window event
NextKeys == \E ev \in WindowEvents : WindowEvent(ev)

SpecKeys == InitCamera /\ [][NextKeys]_vars

(***************************************************************************)
(* Claims about the controller's keys, checked under SpecKeys.             *)
(***************************************************************************)
\* The window events process_events recognises
Recognised(ev) ==
    /\ ev.kind = "KeyboardInput"
    /\ ev.virtual_keycode \in
          {"Space", "LShift", "W", "Up", "A", "Left", "S", "Down", "D", "Right"}

\* The flag each recognised key stands for
KeyField(k) ==
    CASE k = "Space" -> "is_up_pressed"
      [] k = "LShift" -> "is_down_pressed"
      [] k = "W" -> "is_forward_pressed"
      [] k = "Up" -> "is_forward_pressed"
      [] k = "A" -> "is_left_pressed"
      [] k = "Left" -> "is_left_pressed"
      [] k = "S" -> "is_backward_pressed"
      [] k = "Down" -> "is_backward_pressed"
      [] k = "D" -> "is_right_pressed"
      [] k = "Right" -> "is_right_pressed"

\* C4: process_events on an event that is not a keyboard event with a
\* recognised key code returns false and leaves the six key-state booleans
\* and the speed unchanged.
C4_UnrecognisedIgnored ==
    [][(event'.kind # "RedrawRequested" /\ ~Recognised(event'))
          => (consumed' = FALSE /\ controller' = controller)]_vars

\* C4 witness: Escape has been pressed while keys were held, and was not
\* consumed.
C4_Witness ==
    /\ event = KeyboardInput("Pressed", "Escape")
    /\ consumed = FALSE
    /\ controller.is_forward_pressed
    /\ controller.is_left_pressed

\* C5: process_events on a keyboard event with a recognised key returns true
\* and sets exactly the matching boolean (Space->up, LShift->down,
\* W/Up->forward, A/Left->left, S/Down->backward, D/Right->right) to true on
\* Pressed and false on Released, the other five and the speed unchanged; the
\* flag of the event last handled therefore equals that event's state.
C5_RecognisedSetsFlag ==
    [][Recognised(event') =>
          /\ consumed' = TRUE
          /\ controller' =
                [controller EXCEPT ![KeyField(event'.virtual_keycode)] =
                                       (event'.state = "Pressed")]]_vars

\* C5 witness: Left has been released while other keys are held.
C5_Witness ==
    /\ event = KeyboardInput("Released", "Left")
    /\ consumed = TRUE
    /\ ~controller.is_left_pressed
    /\ controller.is_right_pressed
    /\ controller.is_up_pressed
    /\ controller.is_backward_pressed

(***************************************************************************)
(* Claims about update_camera, checked under Spec.                         *)
(***************************************************************************)
\* |eye - target|
Dist(cam) == Magnitude(VSub(cam.target, cam.eye))

\* The controller with the four movement flags as given
WithFlags(ctrl, f, b, r, l) ==
    [ctrl EXCEPT !.is_forward_pressed = f, !.is_backward_pressed = b,
                 !.is_right_pressed = r, !.is_left_pressed = l]

\* Exactly the given one of the six flags is set
OnlyFlag(ctrl, flag) ==
    \A g \in {"is_up_pressed", "is_down_pressed", "is_forward_pressed",
              "is_backward_pressed", "is_left_pressed", "is_right_pressed"} :
        ctrl[g] = (g = flag)

\* The step is a call of update_camera
IsUpdate == event' = RedrawRequested /\ frames' = frames + 1

\* C6: in every state reached from a camera with eye != target and speed > 0
\* by key events and update_camera calls, eye != target (and the eye is not
\* NaN), and 0 < znear < zfar: update_camera never normalises a zero forward.
C6_EyeNeverTarget ==
    /\ ~camera.nan
    /\ camera.eye # camera.target
    /\ 0 < camera.znear
    /\ camera.znear < camera.zfar
    /\ controller.speed > 0

\* C6 witness: forward is held and the camera has come within speed of the
\* target after at least two frames.
C6_Witness ==
    /\ frames >= 2
    /\ event = RedrawRequested
    /\ controller.is_forward_pressed
    /\ Dist(camera) <= controller.speed
    /\ camera.eye # camera.target

\* C7: with only the forward flag set, an update_camera call reduces the
\* distance |eye - target| by speed (up to rounding) while it is > speed, and
\* leaves eye unchanged once it is <= speed; the distance stays > 0.
C7_ForwardStopsShort ==
    [][(IsUpdate /\ OnlyFlag(controller, "is_forward_pressed")) =>
          /\ (Dist(camera) > controller.speed =>
                 Abs(Dist(camera') - (Dist(camera) - controller.speed)) <= Tolerance)
          /\ (Dist(camera) <= controller.speed => camera'.eye = camera.eye)
          /\ Dist(camera') > 0
          /\ ~camera'.nan]_vars

\* C7 witness: only forward is held, frames have run, and the camera has
\* stopped within speed of the target.
C7_Witness ==
    /\ frames >= 3
    /\ event = RedrawRequested
    /\ OnlyFlag(controller, "is_forward_pressed")
    /\ Dist(camera) <= controller.speed
    /\ Dist(camera) > 0

\* C8: with only the right flag, or only the left flag, set, an update_camera
\* call leaves the distance |eye - target| as it was (up to rounding).
C8_OrbitKeepsDistance ==
    [][(IsUpdate /\ (\/ OnlyFlag(controller, "is_right_pressed")
                     \/ OnlyFlag(controller, "is_left_pressed"))) =>
          /\ Abs(Dist(camera') - Dist(camera)) <= RelTolerance(Dist(camera))
          /\ ~camera'.nan]_vars

\* C8 witness: the program's camera (eye (0, 1, 2), speed 0.2) has orbited
\* to the right for two frames or more, off the plane x = 0.
C8_Witness ==
    /\ frames >= 2
    /\ event = RedrawRequested
    /\ OnlyFlag(controller, "is_right_pressed")
    /\ controller.speed = Scale \div 5
    /\ camera.eye[1] # 0
    /\ Abs(Dist(camera) - 2236) <= 3 * RelTolerance(2236)

\* C9 (as claimed): with right and left both set (and neither forward nor
\* backward), the final eye is the left step applied to the eye the right
\* step produced.
C9_LeftAfterRight ==
    [][(/\ IsUpdate
        /\ controller.is_right_pressed /\ controller.is_left_pressed
        /\ ~controller.is_forward_pressed /\ ~controller.is_backward_pressed) =>
          Near(camera'.eye,
               UpdateCamera(WithFlags(controller, FALSE, FALSE, FALSE, TRUE),
                            UpdateCamera(WithFlags(controller, FALSE, FALSE, TRUE, FALSE),
                                         camera)).eye,
               RelTolerance(Dist(camera)))]_vars

\* C9 (amended): the branches run in the order forward, backward, right,
\* left, and right and left orbit the eye that forward/backward left, at
\* its distance from the target; but the left branch does not act on the eye
\* the right branch produced: with right and left both set the right step's
\* result is overwritten, and the final eye is the left step alone applied
\* to the eye as forward/backward left it.
C9_LeftOverridesRight ==
    [][IsUpdate =>
          LET f == controller.is_forward_pressed
              b == controller.is_backward_pressed
              r == controller.is_right_pressed
              l == controller.is_left_pressed
              radial == UpdateCamera(WithFlags(controller, f, b, FALSE, FALSE), camera)
          IN /\ Abs(Dist(camera') - Dist(radial)) <= RelTolerance(Dist(radial))
             /\ (r /\ l) =>
                   camera'.eye = UpdateCamera(WithFlags(controller, f, b, FALSE, TRUE),
                                              camera).eye]_vars

\* C9 witness: a frame has run with right and left both held, and the eye
\* has moved off the plane x = 0 it started in.
C9_Witness ==
    /\ frames >= 1
    /\ event = RedrawRequested
    /\ controller.is_right_pressed
    /\ controller.is_left_pressed
    /\ controller.speed = Scale \div 5
    /\ camera.eye[1] # 0

\* C21: with the backward flag set, every update_camera call moves the eye
\* away from the target by speed along the view line, whatever the distance:
\* with backward and not forward the distance |eye - target| grows by speed
\* (up to rounding) and strictly; with forward and backward both set it is
\* unchanged when the forward guard passes (distance > speed) and grows by
\* speed when it does not. Right and left, if also set, keep the distance
\* the radial step left, up to the rounding of the orbit.
C21_BackwardUnguarded ==
    [][(IsUpdate /\ controller.is_backward_pressed) =>
          LET d == Dist(camera)
              s == controller.speed
              cancelled == controller.is_forward_pressed /\ d > s
              orbits == controller.is_right_pressed \/ controller.is_left_pressed
              expected == IF cancelled THEN d ELSE d + s
              slack == IF orbits THEN Tolerance + RelTolerance(expected) ELSE Tolerance
          IN /\ ~camera'.nan
             /\ Abs(Dist(camera') - expected) <= slack
             /\ ~orbits => Dist(camera') >= d
             /\ ~cancelled => Dist(camera') > d
             /\ (cancelled /\ ~orbits) => camera'.eye = camera.eye]_vars

\* C21 witness: only backward is held and three frames have carried the eye
\* three steps of speed away from where the program starts it (distance
\* sqrt 5).
C21_Witness ==
    /\ frames >= 3
    /\ event = RedrawRequested
    /\ OnlyFlag(controller, "is_backward_pressed")
    /\ controller.speed = Scale \div 5
    /\ Dist(camera) >= 2236 + 3 * controller.speed - 3 * Tolerance

(***************************************************************************)
(* The event loop as a whole: the program as built (its sphere, its one    *)
(* instance, its camera and controller), under window events of every kind *)
(* and redraws whose surface texture may fail to be acquired.              *)
(***************************************************************************)
\* Keys of each kind: moving (D), up and down (Space, LShift), and Escape
LoopKeys == {"D", "Space", "LShift", "Escape"}

LoopEvents ==
    {KeyboardInput(st, k) : st \in KeyStates, k \in LoopKeys}
        \cup {OtherEvent("CloseRequested"), OtherEvent("CursorMoved")}
        \cup {Resized(sz) : sz \in Sizes}
        \cup {ScaleFactorChanged(sz) : sz \in {PhysicalSize(0, 0), PhysicalSize(8, 3)}}

\* A texture, and an error for each arm of `match state.render()`
LoopResults == {"Ok", "Lost", "OutOfMemory", "Timeout"}

NextLoop ==
    \/ \E ev \in LoopEvents : WindowEvent(ev)
    \/ \E result \in LoopResults : Redraw(result)

SpecLoop == InitFrame /\ [][NextLoop]_vars

\* The step handles a window event
IsWindowEvent == event'.kind # "RedrawRequested"

\* What State::resize(new_size) leaves when it takes the new size, the
\* other fields of the configuration as they were
ResizedTo(new_size) ==
    /\ size' = new_size
    /\ config' = [config EXCEPT !.width = new_size.width, !.height = new_size.height]
    /\ depth_texture' = CreateDepthTexture(config', "depth_texture")
    /\ calls' = <<"create_depth_texture", "surface.configure">>

\* C22: every window event is offered to the camera controller first
\* (consumed is what process_events returns for it) and reaches the window
\* logic only when that is false: CloseRequested and a press of Escape are
\* never consumed and always set the control flow to Exit; Resized and
\* ScaleFactorChanged are never consumed and call resize with the size they
\* carry; an event the controller consumed changes neither the control flow
\* nor size, configuration or depth texture, and makes no call.
C22_ControllerFirst ==
    [][IsWindowEvent =>
          LET ev == event'
          IN /\ consumed' = ProcessEvents(controller, ev).ret
             /\ controller' = ProcessEvents(controller, ev).controller
             /\ (\/ ev.kind = "CloseRequested"
                 \/ ev = KeyboardInput("Pressed", "Escape")) =>
                    (~consumed' /\ control_flow' = "Exit")
             /\ ev.kind \in {"Resized", "ScaleFactorChanged"} =>
                    /\ ~consumed'
                    /\ control_flow' = control_flow
                    /\ IF ev.size.width > 0 /\ ev.size.height > 0
                       THEN ResizedTo(ev.size)
                       ELSE UNCHANGED <<size, config, depth_texture>> /\ calls' = <<>>
             /\ consumed' =>
                    /\ UNCHANGED <<control_flow, size, config, depth_texture>>
                    /\ calls' = <<>>
             /\ control_flow' # control_flow =>
                    (\/ ev.kind = "CloseRequested"
                     \/ ev = KeyboardInput("Pressed", "Escape"))]_vars

\* C22 witness: Escape has been pressed while a movement key was held and
\* after the window was resized: it was not consumed and the loop is to exit.
C22_Witness ==
    /\ event = KeyboardInput("Pressed", "Escape")
    /\ consumed = FALSE
    /\ control_flow = "Exit"
    /\ controller.is_right_pressed
    /\ size = PhysicalSize(8, 3)

\* C23: on a redraw whose surface texture cannot be acquired, no encoder is
\* created, no pass recorded, nothing submitted and nothing presented, and
\* what was last submitted stays as it was. On Lost, resize is called with
\* the current size: the depth texture is remade and the surface configured
\* again, size and configuration keeping their values, and the control flow
\* is unchanged. On OutOfMemory the control flow becomes Exit and nothing is
\* reconfigured. On any other error the error is printed and control flow,
\* size, configuration and depth texture are unchanged.
C23_RenderErrors ==
    [][(IsFrame /\ rendered' # "Ok") =>
          /\ calls' \in Seq({"queue.write_buffer", "surface.get_current_texture",
                             "create_depth_texture", "surface.configure", "eprintln"})
          /\ render_pass' = <<>>
          /\ submitted' = submitted
          /\ rendered' = "Lost" =>
                /\ calls' = <<"queue.write_buffer", "surface.get_current_texture",
                              "create_depth_texture", "surface.configure">>
                /\ UNCHANGED <<size, config, control_flow>>
                /\ depth_texture' = CreateDepthTexture(config, "depth_texture")
          /\ rendered' = "OutOfMemory" =>
                /\ calls' = <<"queue.write_buffer", "surface.get_current_texture">>
                /\ control_flow' = "Exit"
                /\ UNCHANGED <<size, config, depth_texture>>
          /\ rendered' \in {"Timeout", "Outdated"} =>
                /\ calls' = <<"queue.write_buffer", "surface.get_current_texture",
                              "eprintln">>
                /\ UNCHANGED <<size, config, depth_texture, control_flow>>]_vars

\* C23 witness: after a frame that was drawn, a frame with right held has
\* timed out: the camera buffer was rewritten for the camera as moved, but
\* the last submission is still the earlier frame's, and the loop runs on.
C23_Witness ==
    /\ frames >= 2
    /\ event = RedrawRequested
    /\ rendered = "Timeout"
    /\ control_flow = "Poll"
    /\ render_pass = <<>>
    /\ Cardinality(DrawPositions(submitted.commands)) = 6
    /\ submitted.camera_buffer # camera_buffer
    /\ camera_buffer = BuildViewProjectionMatrix(camera)

\* The step handles Resized or ScaleFactorChanged
IsResize == event'.kind \in {"Resized", "ScaleFactorChanged"}

\* C24: resize with a new width or height of 0 leaves size, configuration
\* and depth texture as they were and configures nothing; with both positive
\* it sets size and the configuration's width and height to the new values
\* and remakes the depth texture for that configuration. No step of the
\* event loop, resize included, changes the camera's aspect, and a size with
\* both sides positive keeps both sides positive; the configuration's width
\* and height stay those of size.
C24_ResizeGuard ==
    [][/\ IsResize =>
            IF event'.size.width > 0 /\ event'.size.height > 0
            THEN ResizedTo(event'.size)
            ELSE UNCHANGED <<size, config, depth_texture>> /\ calls' = <<>>
       /\ IsResize => camera' = camera
       /\ camera'.aspect = camera.aspect
       /\ (size.width > 0 /\ size.height > 0) => (size'.width > 0 /\ size'.height > 0)
       /\ (config.width = size.width /\ config.height = size.height) =>
             (config'.width = size'.width /\ config'.height = size'.height)
      ]_vars

\* C24 witness: the window was resized to 8 x 3 and a later resize to a zero
\* width has been refused; the camera's aspect is still that of the 4 x 3
\* window the program started with.
C24_Witness ==
    /\ event = Resized(PhysicalSize(0, 3))
    /\ size = PhysicalSize(8, 3)
    /\ config.width = 8
    /\ config.height = 3
    /\ depth_texture = CreateDepthTexture(config, "depth_texture")
    /\ calls = <<>>
    /\ camera.aspect = CameraNew(4, 3).aspect
    /\ camera.aspect # CameraNew(8, 3).aspect

\* C25: update_camera changes nothing but camera.eye: target, up, aspect,
\* fovy, znear and zfar, and the controller's flags and speed, are as they
\* were; the eye too is as it was when none of forward, backward, left and
\* right is set; and the up and down flags have no effect: the camera a
\* frame leaves is the one update_camera gives with both cleared. A window
\* event leaves the camera as it was. No step of the event loop (input,
\* update, render or resize) changes the sphere's meshes or the instances.
C25_OnlyEyeMoves ==
    [][/\ IsFrame =>
            /\ camera' = [camera EXCEPT !.eye = camera'.eye]
            /\ controller' = controller
            /\ (~controller.is_forward_pressed /\ ~controller.is_backward_pressed
                  /\ ~controller.is_left_pressed /\ ~controller.is_right_pressed)
                  => camera'.eye = camera.eye
            /\ camera' = UpdateCamera([controller EXCEPT !.is_up_pressed = FALSE,
                                                         !.is_down_pressed = FALSE],
                                      camera)
       /\ ~IsFrame => camera' = camera
       /\ meshes' = meshes
       /\ instances' = instances
       /\ UNCHANGED <<resolution, sphere_built, instances_built>>
      ]_vars

\* C25 witness: frames have run with Space and LShift held and with a
\* movement key held: the eye has moved, everything else of the camera is
\* as built, and the sphere still has its six meshes and the instance list
\* its instance.
C25_Witness ==
    /\ frames >= 2
    /\ event = RedrawRequested
    /\ controller.is_up_pressed
    /\ controller.is_down_pressed
    /\ controller.is_right_pressed
    /\ camera.eye # CameraNew(4, 3).eye
    /\ camera = [CameraNew(4, 3) EXCEPT !.eye = camera.eye]
    /\ size = PhysicalSize(8, 3)
    /\ meshes = SphereNew(2)
    /\ instances = GridInstances(3 * Scale, 1)

====
